---- MODULE Spec2Model ----
(***************************************************************************)
(* Model of the step-loop controller (agents/orchestrator.py) and of the   *)
(* collaborators it drives: the Browser Controller (agents/web_agent.py),  *)
(* the metadata store (utils/state_manager.py) and the compact step log    *)
(* (utils/run_recorder.py).                                                *)
(*                                                                         *)
(* Python strings are sequences of one-character strings, so that          *)
(* str.lower(), the `in` substring test and f-string concatenation are     *)
(* computed rather than assumed.  None and a missing dictionary key are    *)
(* the two sentinels None and Absent.                                      *)
(***************************************************************************)
EXTENDS Integers, Sequences, FiniteSets, TLC

\* ------------------------------------------------------------------ bounds
\* largest step budget (Orchestrator.max_steps) a run is configured with
MaxBudget == 3

\* ------------------------------------------------------------ Python values
None == <<"None">>
Absent == <<"Absent">>

UpperAlphabet == <<"A","B","C","D","E","F","G","H","I","J","K","L","M","N","O","P","Q","R","S","T","U","V","W","X","Y","Z">>
LowerAlphabet == <<"a","b","c","d","e","f","g","h","i","j","k","l","m","n","o","p","q","r","s","t","u","v","w","x","y","z">>

\* str.lower() on one character
LowerChar(c) ==
    IF \E i \in 1..Len(UpperAlphabet) : UpperAlphabet[i] = c
    THEN LowerAlphabet[CHOOSE i \in 1..Len(UpperAlphabet) : UpperAlphabet[i] = c]
    ELSE c

\* str.lower()
lower(s) == [i \in 1..Len(s) |-> LowerChar(s[i])]

\* the Python test `sub in s` on strings
Contains(sub, s) ==
    \E i \in 0..(Len(s) - Len(sub)) : SubSeq(s, i + 1, i + Len(sub)) = sub

\* truthiness of an optional string: None and "" are falsy
Truthy(s) == s # None /\ s # Absent /\ s # << >>

\* dict.get(key, default) for a key that may be missing
Get(v, default) == IF v = Absent THEN default ELSE v

\* any(sub in s for sub in subs)
ContainsAny(subs, s) == \E i \in 1..Len(subs) : Contains(subs[i], s)

\* ---------------------------------------------------------------- literals
click == <<"c","l","i","c","k">>
fill == <<"f","i","l","l">>
navigate == <<"n","a","v","i","g","a","t","e">>
wait == <<"w","a","i","t">>
done_kind == <<"d","o","n","e">>
error_kind == <<"e","r","r","o","r">>
unknown == <<"u","n","k","n","o","w","n">>
ui_updated == <<"u","i","_","u","p","d","a","t","e","d">>

\* orchestrator.py line 109
oauth_domains == << <<"a","c","c","o","u","n","t","s",".","g","o","o","g","l","e",".","c","o","m">>, <<"g","i","t","h","u","b",".","c","o","m">>, <<"o","a","u","t","h">>,
                    <<"l","o","g","i","n",".","m","i","c","r","o","s","o","f","t","o","n","l","i","n","e",".","c","o","m">>, <<"a","p","p","l","e","i","d",".","a","p","p","l","e",".","c","o","m">> >>

\* orchestrator.py line 202
email_keywords == << <<"e","m","a","i","l">>, <<"e","-","m","a","i","l">>, <<"u","s","e","r","n","a","m","e">>, <<"u","s","e","r"," ","n","a","m","e">> >>
password_keyword == <<"p","a","s","s","w","o","r","d">>

\* exception and error texts
StuckPrefix == <<"S","t","u","c","k"," ","o","n"," ","O","A","u","t","h"," ","p","a","g","e",":"," ">>
StuckSuffix == <<"."," ","P","l","e","a","s","e"," ","c","o","m","p","l","e","t","e"," ","a","u","t","h","e","n","t","i","c","a","t","i","o","n"," ","m","a","n","u","a","l","l","y",".">>
UnknownError == <<"U","n","k","n","o","w","n"," ","e","r","r","o","r">>
UnknownActionPrefix == <<"U","n","k","n","o","w","n"," ","a","c","t","i","o","n"," ","t","y","p","e",":"," ">>
NoTextOrSelector == <<"E","i","t","h","e","r"," ","t","e","x","t"," ","o","r"," ","s","e","l","e","c","t","o","r"," ","m","u","s","t"," ","b","e"," ","p","r","o","v","i","d","e","d">>
NoneHasNoLower == <<"'","N","o","n","e","T","y","p","e","'"," ","o","b","j","e","c","t"," ","h","a","s"," ","n","o"," ","a","t","t","r","i","b","u","t","e"," ","'","l","o","w","e","r","'">>
ClickNotFoundPrefix == <<"C","o","u","l","d"," ","n","o","t"," ","f","i","n","d"," ","c","l","i","c","k","a","b","l","e"," ","e","l","e","m","e","n","t"," ","w","i","t","h"," ","t","e","x","t"," ","'">>
FieldNotFoundPrefix == <<"C","o","u","l","d"," ","n","o","t"," ","f","i","n","d"," ","f","i","e","l","d"," ","'">>
LastErrorInfix == <<"'","."," ","L","a","s","t"," ","e","r","r","o","r",":"," ">>
\* text of an exception raised inside the browser driver
DriverError == <<"T","i","m","e","o","u","t"," ","3","0","0","0","0","m","s"," ","e","x","c","e","e","d","e","d">>
PermissionDenied == <<"P","e","r","m","i","s","s","i","o","n"," ","d","e","n","i","e","d">>
TypeErrorText == <<"'","<","=","'"," ","n","o","t"," ","s","u","p","p","o","r","t","e","d"," ","b","e","t","w","e","e","n"," ","i","n","s","t","a","n","c","e","s"," ","o","f"," ","'","s","t","r","'"," ","a","n","d"," ","'","i","n","t","'">>
NoneText == <<"N","o","n","e">>

\* str(x) inside an f-string
PyStr(v) == IF v = None THEN NoneText ELSE v

\* ------------------------------------------------------ OAuth redirect guard
\* number of one-second polls of the guard, range(10)
PollLimit == 10

\* orchestrator.py line 110: any(oauth in current_domain.lower() ...)
is_oauth_page(current_domain) ==
    ContainsAny(oauth_domains, lower(current_domain))

\* the poll's exit test with the negation of its second disjunct lost
redirect_resolved_any(original_domain, current_domain) ==
    \/ Contains(original_domain, current_domain)
    \/ is_oauth_page(current_domain)

\* orchestrator.py line 121: the poll's exit test
redirect_resolved(original_domain, current_domain) ==
    \/ Contains(original_domain, current_domain)
    \/ ~ is_oauth_page(current_domain)

\* the guard entered on the host alone
guard_entered_without_origin(original_domain, current_domain) ==
    is_oauth_page(current_domain)

\* orchestrator.py line 113: the guard is entered
guard_entered(original_domain, current_domain) ==
    is_oauth_page(current_domain) /\ Truthy(original_domain)

\* orchestrator.py line 127
stuck_error(current_domain) == StuckPrefix \o current_domain \o StuckSuffix

\* -------------------------------------------------------- credential policy
\* `if self.credentials`: the dictionary has at least one key
has_credentials(credentials) ==
    credentials.email # Absent \/ credentials.password # Absent

\* the credential policy applied only to a decision that proposes no value
auto_fill_if_missing(action_type, action_target, value, credentials) ==
    IF action_type = fill /\ has_credentials(credentials) /\ ~ Truthy(value)
    THEN IF ContainsAny(email_keywords, action_target)
         THEN IF Truthy(credentials.email) THEN credentials.email ELSE value
         ELSE IF Contains(password_keyword, action_target)
              THEN IF Truthy(credentials.password) THEN credentials.password ELSE value
              ELSE value
    ELSE value

\* orchestrator.py lines 200-210: the value of the decision after the policy
auto_fill(action_type, action_target, value, credentials) ==
    IF action_type = fill /\ has_credentials(credentials)
    THEN IF ContainsAny(email_keywords, action_target)
         THEN IF Truthy(credentials.email) THEN credentials.email ELSE value
         ELSE IF Contains(password_keyword, action_target)
              THEN IF Truthy(credentials.password) THEN credentials.password ELSE value
              ELSE value
    ELSE value

\* ------------------------------------------------------- Browser Controller
\* number of text strategies of WebAgent.click (web_agent.py lines 382-393)
NumStrategies == 9

submit_keywords == << <<"s","i","g","n"," ","i","n">>, <<"l","o","g","i","n">>, <<"s","u","b","m","i","t">>, <<"c","o","n","t","i","n","u","e">>, <<"c","r","e","a","t","e">>, <<"s","a","v","e">>, <<"n","e","x","t">> >>
checkbox_keywords == << <<"d","o","n","e">>, <<"c","o","m","p","l","e","t","e">>, <<"c","h","e","c","k">>, <<"c","h","e","c","k","b","o","x">>, <<"t","a","s","k">>, <<"t","o","d","o">>, <<"m","a","r","k">> >>

Returned(nav) == [raised |-> FALSE, nav |-> nav, text |-> << >>]
Raised(text) == [raised |-> TRUE, nav |-> FALSE, text |-> text]

\* WebAgent.click(text=..., wait_for_navigation=...) on a page where
\* page.matching is the set of text strategies whose selector locates an
\* element, page.ci says whether the partial case-insensitive selector does,
\* page.checkbox whether a checkbox selector does, and page.navigates whether
\* a click on the located element starts a navigation.
click_text(text, wait_for_navigation, page) ==
    LET wfn == wait_for_navigation
               \/ ContainsAny(submit_keywords, lower(text))
        is_checkbox_task == ContainsAny(checkbox_keywords, lower(text))
    IN  IF wfn
        THEN \* first strategy: a failed click and a navigation timeout are
             \* both caught by `except Exception as nav_error` (line 413)
             IF 1 \in page.matching /\ page.navigates
             THEN Returned(TRUE) ELSE Returned(FALSE)
        ELSE IF page.matching # {} \/ page.ci THEN Returned(FALSE)
        ELSE IF is_checkbox_task THEN Returned(FALSE)
        ELSE Raised(ClickNotFoundPrefix \o text \o LastErrorInfix \o DriverError)

\* WebAgent.click, web_agent.py lines 350-532
web_click(text, wait_for_navigation, page) ==
    IF Truthy(text) THEN click_text(text, wait_for_navigation, page)
    ELSE Raised(NoTextOrSelector)

\* WebAgent.fill, web_agent.py lines 534-641
web_fill(field, value, page) ==
    IF page.field THEN Returned(FALSE)
    ELSE Raised(FieldNotFoundPrefix \o PyStr(field) \o LastErrorInfix \o DriverError)

\* WebAgent.navigate, web_agent.py lines 183-204: the exception of a page
\* that does not load is caught at line 200, and navigate returns None
web_navigate(url, page) ==
    LET goto == IF page.loads THEN Returned(FALSE) ELSE Raised(DriverError)
    IN  IF goto.raised THEN Returned(FALSE) ELSE goto

\* a dispatch that compares the action kind without regard to letter case
perform_any_case(action, page) ==
    LET action_type == lower(action.action)
        target == Get(action.target, None)
        value == Get(action.value, None)
    IN  IF action_type = click THEN web_click(target, TRUE, page)
        ELSE IF action_type = fill THEN web_fill(target, value, page)
        ELSE IF action_type = navigate
             THEN IF web_navigate(target, page).raised THEN web_navigate(target, page)
                  ELSE Returned(TRUE)
        ELSE IF action_type = wait
             THEN IF Truthy(value) THEN Raised(TypeErrorText) ELSE Returned(FALSE)
        ELSE Raised(UnknownActionPrefix \o PyStr(action_type))

\* WebAgent.perform, web_agent.py lines 697-731; action is the decision with
\* a missing key read as None (dict.get)
perform(action, page) ==
    LET action_type == action.action
        target == Get(action.target, None)
        value == Get(action.value, None)
    IN  IF action_type = click THEN web_click(target, TRUE, page)
        ELSE IF action_type = fill THEN web_fill(target, value, page)
        ELSE IF action_type = navigate
             THEN IF web_navigate(target, page).raised THEN web_navigate(target, page)
                  ELSE Returned(TRUE)
        ELSE IF action_type = wait
             THEN IF Truthy(value) THEN Raised(TypeErrorText) ELSE Returned(FALSE)
        ELSE Raised(UnknownActionPrefix \o PyStr(action_type))

\* ----------------------------------------------------------- metadata store
\* a save that leaves the store as it was
save_step_skipped(steps, step, step_data) == steps

\* StateManager.save_step, state_manager.py lines 63-81
save_step(steps, step, step_data) ==
    IF step < Len(steps)
    THEN [steps EXCEPT ![step + 1] = step_data]
    ELSE Append(steps, step_data)

\* the None that get_step and get_last_step return in place of a Step Record
NoStep == [none |-> None]

\* StateManager.get_step, state_manager.py lines 100-104
get_step(steps, step) ==
    IF 0 <= step /\ step < Len(steps) THEN steps[step + 1] ELSE NoStep

\* StateManager.get_last_step, state_manager.py lines 96-98
get_last_step(steps) == IF Len(steps) > 0 THEN steps[Len(steps)] ELSE NoStep

\* ---------------------------------------------------------- compact step log
\* steps.jsonl opened for writing instead of appending
record_step_truncating(log, step, action, status) ==
    << [step |-> step, action |-> action, status |-> status] >>

\* RunRecorder.record_step, run_recorder.py lines 44-61
record_step(log, step, action, status) ==
    Append(log, [step |-> step, action |-> action, status |-> status])

\* ------------------------------------------------------------ configuration
linear_app == <<"l","i","n","e","a","r",".","a","p","p">>
github_com == <<"g","i","t","h","u","b",".","c","o","m">>

\* hosts the browser can report (urlparse(current_url).netloc)
Hosts == {linear_app, github_com}

\* urlparse(initial_url).netloc, None without an initial URL
OriginalDomains == {None, linear_app, github_com}

a_b_com == <<"a","@","b",".","c","o","m">>
secret == <<"h","u","n","t","e","r","2">>
NoCredentials == [email |-> Absent, password |-> Absent]
CredentialSets == {NoCredentials, [email |-> a_b_com, password |-> secret]}

\* decisions the Action Planner can return (ReasoningAgent.plan_next)
Decision(action, target, value, done, err) ==
    [action |-> action, target |-> target, value |-> value, done |-> done, error |-> err,
     reasoning |-> Absent]

\* the same decision with the model's `reasoning` text
with_reasoning(decision, text) == [decision EXCEPT !.reasoning = text]

Next_button == <<"N","e","x","t">>
Email_address == <<"E","m","a","i","l"," ","a","d","d","r","e","s","s">>
Password_label == <<"P","a","s","s","w","o","r","d">>
x_y_org == <<"x","@","y",".","o","r","g">>
boom == <<"C","o","n","n","e","c","t","i","o","n"," ","r","e","f","u","s","e","d">>
cannot_proceed == <<"C","a","n","n","o","t"," ","p","r","o","c","e","e","d">>

Decisions ==
    { Decision(click, Next_button, None, FALSE, Absent),
      Decision(click, None, None, FALSE, Absent),
      Decision(fill, Email_address, x_y_org, FALSE, Absent),
      Decision(fill, Email_address, None, FALSE, Absent),
      Decision(fill, Email_address, Absent, FALSE, Absent),
      Decision(fill, Password_label, x_y_org, FALSE, Absent),
      Decision(navigate, linear_app, None, FALSE, Absent),
      Decision(wait, Absent, None, FALSE, Absent),
      Decision(unknown, Absent, None, FALSE, Absent),
      Decision(done_kind, None, None, TRUE, Absent),
      Decision(click, Next_button, None, TRUE, Absent),
      Decision(error_kind, None, None, FALSE, boom),
      Decision(error_kind, None, None, FALSE, Absent),
      with_reasoning(Decision(error_kind, None, None, FALSE, Absent), cannot_proceed),
      Decision(error_kind, None, None, TRUE, boom),
      Decision(unknown, Absent, None, TRUE, Absent) }

NoDecision == Decision(unknown, Absent, Absent, FALSE, Absent)

\* pages the browser can show when an action is dispatched
Pages ==
    { [matching |-> 1..NumStrategies, ci |-> TRUE, navigates |-> TRUE, field |-> TRUE,
       loads |-> TRUE],
      [matching |-> 1..NumStrategies, ci |-> TRUE, navigates |-> FALSE, field |-> TRUE,
       loads |-> TRUE],
      [matching |-> {}, ci |-> FALSE, navigates |-> FALSE, field |-> FALSE,
       loads |-> FALSE] }

\* -------------------------------------------------------------------- state
VARIABLES
    max_steps,          \* Orchestrator.max_steps
    original_domain,    \* run_task: original_domain
    credentials,        \* Orchestrator.credentials
    pc,                 \* position of run_task
    step,               \* run_task: step
    done,               \* run_task: done
    error,              \* run_task: error
    oauth_detected,     \* run_task: oauth_detected
    screenshot_already_captured,
    img_path,           \* index of the screenshot file img_path names, -1 before the first
    current_domain,     \* run_task: current_domain
    wait_attempt,       \* polls the guard has made without seeing the redirect resolve
    vision_data,        \* the description handed to the Planner: "ok" or "degraded", "none" outside perceive/decide
    reasoning_data,     \* the decision of this iteration
    steps,              \* StateManager.steps
    log,                \* steps.jsonl of the RunRecorder
    screenshots,        \* indices of the screenshots written, in order
    captured_after,     \* for each screenshot written, the number of actions dispatched before it
    result,             \* the Run Result
    final_state,        \* its final_state: the record get_last_step returned
    exc,                \* text of the exception that escaped the loop body
    iterations,         \* loop iterations started
    describe_calls,     \* calls of VisionAgent.describe_ui
    plan_calls,         \* calls of ReasoningAgent.plan_next
    perform_calls,      \* calls of WebAgent.perform
    performed,          \* step and action dictionary of the last call of perform
    outcome,            \* what the last call of perform did, and whether the page held the target
    calls_at_start,     \* describe_calls, plan_calls and perform_calls when this iteration started
    click_step,         \* step of a non-navigating click not yet followed by a decision, -1 if none
    halt,               \* the exit of the loop that was taken
    unfailed_pc,        \* the position run_task would be at had no Step Recorder call failed
    persisted,          \* step and decision value of the entry last written to metadata.json
    summary,            \* run_summary.json: "none", "written", or "failed" when write_summary raised
    recorder_faulty,    \* whether calls of the Step Recorder and the report can raise
    describe_pc,        \* position of VisionAgent.describe_ui
    retry_attempts,     \* VisionAgent.retry_attempts
    attempt,            \* describe_ui: attempt
    requests,           \* outcomes of the requests describe_ui has posted, in order
    ui_description,     \* what describe_ui returned
    plan_pc,            \* position of ReasoningAgent.plan_next
    response,           \* what the request of plan_next meets: transport outcome and response text
    planned,            \* what plan_next returned
    main_pc,            \* position of main
    stop_calls          \* calls of WebAgent.stop

vars == << max_steps, original_domain, credentials, pc, step, done, error,
           oauth_detected, screenshot_already_captured, img_path, current_domain,
           wait_attempt, vision_data, reasoning_data, steps, log, screenshots,
           captured_after, result, final_state, exc, iterations, describe_calls, plan_calls, perform_calls,
           performed, outcome, calls_at_start, click_step, halt, unfailed_pc,
           persisted, summary, recorder_faulty, describe_pc, retry_attempts, attempt,
           requests, ui_description, plan_pc, response, planned, main_pc,
           stop_calls >>

config == << max_steps, original_domain, credentials >>
locals == << step, done, error, oauth_detected, screenshot_already_captured,
             img_path, current_domain, wait_attempt, vision_data, reasoning_data >>
stores == << steps, log, screenshots, captured_after >>
history == << iterations, describe_calls, plan_calls, perform_calls, performed,
              outcome, calls_at_start, click_step, halt >>
describer == << describe_pc, retry_attempts, attempt, requests, ui_description >>
planner == << plan_pc, response, planned >>
shell == << main_pc, stop_calls >>
\* what no step of run_task changes
side == << recorder_faulty, describer, planner, shell >>

NotPerformed == [step |-> -1, action |-> NoDecision, proposed |-> Absent]
NoResult == [completed |-> FALSE, steps |-> 0, error |-> None]
NotPersisted == [step |-> -1, value |-> Absent]
NoOutcome == [raised |-> FALSE, nav |-> FALSE, text |-> << >>, located |-> FALSE,
              loaded |-> TRUE]

\* the Orchestrator as main constructs it (main.py lines 104-123) on a
\* metadata store that load_state filled from metadata.json, and the locals
\* of run_task (lines 71-80)
Resumed(budgets, domains, credential_sets, faulty, entry, loaded) ==
    /\ max_steps \in budgets
    /\ original_domain \in domains
    /\ credentials \in credential_sets
    /\ recorder_faulty = faulty
    /\ pc = entry
    /\ unfailed_pc = entry
    /\ summary = "none"
    /\ persisted = NotPersisted
    /\ step = 0
    /\ done = FALSE
    /\ error = None
    /\ oauth_detected = FALSE
    /\ screenshot_already_captured = FALSE
    /\ img_path = -1
    /\ current_domain = << >>
    /\ wait_attempt = 0
    /\ vision_data = "none"
    /\ reasoning_data = NoDecision
    /\ steps \in loaded
    /\ log = << >>
    /\ screenshots = << >>
    /\ captured_after = << >>
    /\ result = NoResult
    /\ final_state = NoStep
    /\ exc = None
    /\ iterations = 0
    /\ describe_calls = 0
    /\ plan_calls = 0
    /\ perform_calls = 0
    /\ performed = NotPerformed
    /\ calls_at_start = << 0, 0, 0 >>
    /\ outcome = NoOutcome
    /\ click_step = -1
    /\ halt = "none"

\* the same on a task directory without metadata.json
Constructed(budgets, domains, credential_sets, faulty, entry) ==
    Resumed(budgets, domains, credential_sets, faulty, entry, {<< >>})

\* before describe_ui is called
NoDescription == [none |-> None]
DescriberIdle ==
    /\ describe_pc = "idle"
    /\ retry_attempts = 0
    /\ attempt = 0
    /\ requests = << >>
    /\ ui_description = NoDescription

\* before plan_next is called
NoResponse == [transport |-> "none", text |-> << >>]
PlannerIdle ==
    /\ plan_pc = "idle"
    /\ response = NoResponse
    /\ planned = NoDecision

\* main.py line 129: main is inside run_task
InRunTask ==
    /\ main_pc = "run_task"
    /\ stop_calls = 0

\* run_task is entered with any budget, initial URL and credentials
Init ==
    /\ Constructed(1..MaxBudget, OriginalDomains, CredentialSets, FALSE, "start")
    /\ DescriberIdle
    /\ PlannerIdle
    /\ InRunTask

\* ------------------------------------------------------------- the step loop
\* the metadata entry written by save_step (lines 154-163)
step_data(s, decision) ==
    [step |-> s, action |-> decision.action]

\* state_manager.py lines 63-94: the entry as json.dump writes it when
\* save_step is called; the dictionary kept in self.steps is the Planner's
\* own, so what line 203 or 207 assigns later reaches the file only with the
\* next save_step
persisted_entry(s, decision) == [step |-> s, value |-> decision.value]

\* the step index after a non-navigating click, with the increment lost
step_after_click_stuck(s) == s

\* orchestrator.py line 290: the step index after a non-navigating click
step_after_click(s) == s + 1

\* orchestrator.py line 370: the step index at the end of an iteration
step_at_tail(s) == s + 1

\* orchestrator.py lines 379 and 402: the steps count of the Run Result
steps_executed(s) == s + 1

\* an exception of the action block that lets the loop go on
after_action_exception_continue == "while"

\* orchestrator.py line 368: where an exception of the action block leads
after_action_exception == "result"

\* done=true that falls through to the action block
after_done_fallthrough == "act"

\* orchestrator.py line 187: where done=true leads
after_done == "result"

\* the Planner's error text read without a default
planner_error_no_default(decision) == Get(decision.error, None)

\* orchestrator.py line 191: reasoning_data.get("error", "Unknown error")
planner_error(decision) == Get(decision.error, UnknownError)

\* the exits of lines 185-193 with the error test ahead of the done test
verdict_error_first(decision) ==
    IF decision.action = error_kind THEN "planner_error"
    ELSE IF decision.done THEN "done"
    ELSE "act"

\* orchestrator.py lines 185-193: `if done: break`, then
\* `if action == "error": ... break`, else the action block
verdict(decision) ==
    IF decision.done THEN "done"
    ELSE IF decision.action = error_kind THEN "planner_error"
    ELSE "act"

\* a degraded description that ends the loop
after_describe_halting(description) ==
    IF description = "degraded" THEN "result" ELSE "decide"

\* orchestrator.py lines 139-142: whatever describe_ui returned is handed to
\* plan_next
after_describe(description) == "decide"

\* a tail record that is never marked "success"
tail_status_pending(navigation_occurred, action_type) == "pending"

\* orchestrator.py line 343
tail_status(navigation_occurred, action_type) ==
    IF navigation_occurred \/ action_type # click THEN "success" ELSE "pending"

\* a failing call of the Step Recorder that escapes to line 397
after_logging_raising(failed, target) == IF failed THEN "fatal" ELSE target

\* orchestrator.py lines 182, 234, 346, 366, 387 and 392: an exception of a
\* Step Recorder call or of the report is swallowed, and run_task goes on
\* where it would have gone
after_logging(failed, target) == target

\* run_task goes to target after logging calls of which one may have failed
Goto(failed, target) ==
    /\ pc' = after_logging(failed, target)
    /\ unfailed_pc' = target

\* whether a call of the Step Recorder or of the report raises
Failures == IF recorder_faulty THEN BOOLEAN ELSE {FALSE}

\* run_recorder.py lines 28-61 inside the try blocks of run_task: the line is
\* appended unless the call raises
try_record_step(failed, records, s, action, status) ==
    IF failed THEN records ELSE record_step(records, s, action, status)

Raise(text) ==
    /\ Goto(FALSE, "fatal")
    /\ exc' = text

\* lines 63-84: the initial navigation, whose failure WebAgent.navigate
\* swallows (web_agent.py lines 195-204), and the construction of the
\* RunRecorder at line 80, ahead of the try of line 82: an exception of its
\* mkdir (run_recorder.py line 22) leaves run_task without a Run Result
Begin ==
    /\ pc = "start"
    /\ \E navigated, recorder_set_up \in BOOLEAN :
         IF recorder_set_up
         THEN /\ Goto(FALSE, "while")
              /\ exc' = exc
         ELSE /\ Goto(FALSE, "raised")
              /\ exc' = PermissionDenied
    /\ UNCHANGED << config, side, persisted, summary, locals, stores, result, final_state, history >>

\* line 86: the loop test
WhileTest ==
    /\ pc = "while"
    /\ IF step < max_steps /\ ~ done
       THEN /\ Goto(FALSE, "capture")
            /\ iterations' = iterations + 1
            /\ calls_at_start' = << describe_calls, plan_calls, perform_calls >>
            /\ halt' = halt
       ELSE /\ Goto(FALSE, "result")
            /\ iterations' = iterations
            /\ calls_at_start' = calls_at_start
            /\ halt' = "budget"
    /\ UNCHANGED << config, side, persisted, summary, locals, stores, result, final_state, exc, describe_calls,
                    plan_calls, perform_calls, performed, outcome, click_step >>

\* a reuse of the screenshot taken at the start of the clicking iteration
reused_screenshot_before_click(s) == s - 1

\* orchestrator.py lines 99-100: the screenshot that is reused is step_{step}.png
reused_screenshot(s) == s

\* lines 91-102: capture the screenshot of this step, or reuse the one taken
\* after the click
Capture ==
    /\ pc = "capture"
    /\ IF ~ screenshot_already_captured
       THEN \E captured \in BOOLEAN :
              IF captured
              THEN /\ screenshots' = Append(screenshots, step)
                   /\ captured_after' = Append(captured_after, perform_calls)
                   /\ img_path' = step
                   /\ Goto(FALSE, "read_url")
                   /\ exc' = exc
              ELSE /\ Raise(DriverError)
                   /\ UNCHANGED << screenshots, captured_after, img_path >>
       ELSE /\ img_path' = reused_screenshot(step)
            /\ Goto(FALSE, "read_url")
            /\ UNCHANGED << screenshots, captured_after, exc >>
    /\ screenshot_already_captured' = FALSE
    /\ UNCHANGED << config, side, persisted, summary, step, done, error, oauth_detected, current_domain,
                    wait_attempt, vision_data, reasoning_data, steps, log,
                    result, final_state, history >>

\* lines 105-115: read the URL and enter the OAuth guard
ReadUrl ==
    /\ pc = "read_url"
    /\ \E host \in Hosts :
         /\ current_domain' = host
         /\ IF guard_entered(original_domain, host)
            THEN /\ oauth_detected' = TRUE
                 /\ Goto(FALSE, "poll")
            ELSE /\ oauth_detected' = oauth_detected
                 /\ Goto(FALSE, "perceive")
    /\ wait_attempt' = 0
    /\ UNCHANGED << config, side, persisted, summary, step, done, error, screenshot_already_captured,
                    img_path, vision_data, reasoning_data, stores, result, final_state, exc,
                    history >>

\* lines 117-128: one poll of the guard (sleep one second, read the URL), and
\* the error after the last one
Poll ==
    /\ pc = "poll"
    /\ wait_attempt < PollLimit
    /\ \E host \in Hosts :
         /\ current_domain' = host
         /\ IF redirect_resolved(original_domain, host)
            THEN /\ oauth_detected' = FALSE
                 /\ wait_attempt' = 0
                 /\ Goto(FALSE, "perceive")
                 /\ UNCHANGED << error, halt >>
            ELSE /\ oauth_detected' = oauth_detected
                 /\ wait_attempt' = wait_attempt + 1
                 /\ IF wait_attempt + 1 = PollLimit
                    THEN /\ error' = stuck_error(host)
                         /\ Goto(FALSE, "result")
                         /\ halt' = "oauth"
                    ELSE /\ Goto(FALSE, "poll")
                         /\ UNCHANGED << error, halt >>
    /\ UNCHANGED << config, side, persisted, summary, step, done, screenshot_already_captured, img_path,
                    vision_data, reasoning_data, stores, result, final_state, exc, iterations,
                    describe_calls, plan_calls, perform_calls, performed, outcome,
                    calls_at_start, click_step >>

\* lines 130-139: read the DOM and describe the screenshot
Perceive ==
    /\ pc = "perceive"
    /\ \E dom_read \in BOOLEAN :
         IF ~ dom_read
         THEN /\ Raise(DriverError)
              /\ UNCHANGED << step, vision_data, describe_calls >>
         ELSE IF oauth_detected
         THEN /\ step' = step + 1
              /\ Goto(FALSE, "while")
              /\ UNCHANGED << exc, vision_data, describe_calls >>
         ELSE /\ \E description \in {"ok", "degraded"} :
                   /\ vision_data' = description
                   /\ Goto(FALSE, after_describe(description))
              /\ describe_calls' = describe_calls + 1
              /\ UNCHANGED << step, exc >>
    /\ UNCHANGED << config, side, persisted, summary, done, error, oauth_detected, screenshot_already_captured,
                    img_path, current_domain, wait_attempt, reasoning_data, stores,
                    result, final_state, iterations, plan_calls, perform_calls, performed, outcome,
                    calls_at_start, click_step, halt >>

\* lines 141-193: ask the Planner, persist the pending Step Record, and leave
\* the loop on done=true or on action="error"
Decide ==
    /\ pc = "decide"
    /\ \E decision \in Decisions, failed \in Failures :
         /\ reasoning_data' = decision
         /\ done' = decision.done
         /\ steps' = save_step(steps, step, step_data(step, decision))
         /\ persisted' = persisted_entry(step, decision)
         /\ log' = try_record_step(failed, log, step, decision.action, "pending")
         /\ IF verdict(decision) = "done"
            THEN /\ Goto(failed, after_done)
                 /\ halt' = "done"
                 /\ error' = error
            ELSE IF verdict(decision) = "planner_error"
            THEN /\ error' = planner_error(decision)
                 /\ Goto(failed, "result")
                 /\ halt' = "planner_error"
            ELSE /\ Goto(failed, "act")
                 /\ UNCHANGED << error, halt >>
    /\ plan_calls' = plan_calls + 1
    /\ click_step' = -1
    /\ vision_data' = "none"
    /\ UNCHANGED << config, side, summary, step, oauth_detected, screenshot_already_captured,
                    img_path, current_domain, wait_attempt, screenshots, captured_after,
                    result, final_state,
                    exc, iterations, describe_calls, perform_calls, performed,
                    outcome, calls_at_start >>

\* whether the page holds an element the action's selectors locate
located(action, page) ==
    IF action.action = fill THEN page.field ELSE page.matching # {} \/ page.ci

\* lines 195-290 and 334-371: apply the credential policy, dispatch the
\* action, and reconcile: tail of the iteration, or step increment before the
\* screenshot of a non-navigating click, or the handler of line 351
Act ==
    /\ pc = "act"
    /\ \E failed, failed_again \in Failures :
       LET action == reasoning_data.action
           action_type == lower(action)
           target == Get(reasoning_data.target, << >>)
       IN  IF target = None
           THEN \* None.lower() raises AttributeError inside the try of line 195
                /\ error' = NoneHasNoLower
                /\ log' = try_record_step(failed, log, step, action, "failure")
                /\ Goto(failed, after_action_exception)
                /\ halt' = "exception"
                /\ UNCHANGED << step, reasoning_data, steps, perform_calls, performed,
                                outcome, click_step >>
           ELSE LET filled == auto_fill(action_type, lower(target),
                                        reasoning_data.value, credentials)
                    decision == [reasoning_data EXCEPT !.value = filled]
                IN  /\ reasoning_data' = decision
                    /\ steps' = steps
                    /\ perform_calls' = perform_calls + 1
                    /\ \E page \in Pages :
                         LET out == perform(decision, page)
                         IN  /\ performed' = [step |-> step, action |-> decision,
                                              proposed |-> reasoning_data.value]
                             /\ outcome' = [raised |-> out.raised, nav |-> out.nav, text |-> out.text,
                                            located |-> located(decision, page),
                                            loaded |-> page.loads]
                             /\ IF out.raised
                                THEN /\ error' = out.text
                                     /\ log' = try_record_step(failed_again,
                                                   try_record_step(failed, log, step, action, "failure"),
                                                   step, action, "failure")
                                     /\ Goto(failed \/ failed_again, after_action_exception)
                                     /\ halt' = "dispatch"
                                     /\ UNCHANGED << step, click_step >>
                                ELSE IF ~ out.nav /\ action_type = click
                                THEN /\ step' = step_after_click(step)
                                     /\ click_step' = step
                                     /\ Goto(FALSE, "recapture")
                                     /\ UNCHANGED << error, log, halt >>
                                ELSE /\ log' = try_record_step(failed, log, step, action,
                                                               tail_status(out.nav, action_type))
                                     /\ step' = step_at_tail(step)
                                     /\ Goto(failed, "while")
                                     /\ UNCHANGED << error, click_step, halt >>
    /\ UNCHANGED << config, side, persisted, summary, done, oauth_detected, screenshot_already_captured,
                    img_path, current_domain, wait_attempt, vision_data,
                    screenshots, captured_after, result, final_state, exc, iterations, describe_calls,
                    plan_calls, calls_at_start >>

\* lines 291-332 and 334-371: the screenshot after a non-navigating click;
\* on success the loop continues at line 329, on failure the iteration falls
\* through to its tail
Recapture ==
    /\ pc = "recapture"
    /\ \E captured \in BOOLEAN, failed \in Failures :
         /\ IF captured
            THEN /\ screenshots' = Append(screenshots, step)
                 /\ captured_after' = Append(captured_after, perform_calls)
                 /\ screenshot_already_captured' = TRUE
                 /\ describe_calls' = describe_calls + 1
                 /\ log' = try_record_step(failed, log, step, ui_updated, "success")
                 /\ step' = step
            ELSE /\ log' = try_record_step(failed, log, step, reasoning_data.action,
                                           tail_status(FALSE, lower(reasoning_data.action)))
                 /\ step' = step_at_tail(step)
                 /\ UNCHANGED << screenshots, captured_after, screenshot_already_captured,
                                 describe_calls >>
         /\ Goto(failed, "while")
    /\ UNCHANGED << config, side, persisted, summary, done, error, oauth_detected, img_path, current_domain,
                    wait_attempt, vision_data, reasoning_data, steps, result, final_state, exc,
                    iterations, plan_calls, perform_calls, performed, outcome,
                    calls_at_start, click_step, halt >>

\* orchestrator.py lines 384-387 with run_recorder.py lines 63-80: the run
\* summary is written unless the call raises
write_summary(failed) == IF failed THEN "failed" ELSE "written"

\* a Run Result that reports completion whenever the loop was left normally
completed_on_return(finished) == TRUE

\* orchestrator.py line 378: "completed": done
completed(finished) == finished

\* lines 373-395: the Run Result after the loop
Result ==
    /\ pc = "result"
    /\ result' = [completed |-> completed(done), steps |-> steps_executed(step),
                  error |-> error]
    /\ final_state' = get_last_step(steps)
    /\ \E failed, report_failed \in Failures :
         /\ summary' = write_summary(failed)
         /\ Goto(failed \/ report_failed, "returned")
    /\ UNCHANGED << config, side, persisted, locals, stores, exc, history >>

\* lines 397-405: the Run Result of an exception that escaped the loop body
Fatal ==
    /\ pc = "fatal"
    /\ result' = [completed |-> FALSE, steps |-> steps_executed(step), error |-> exc]
    /\ final_state' = NoStep
    /\ Goto(FALSE, "returned")
    /\ halt' = "fatal"
    /\ UNCHANGED << config, side, persisted, summary, locals, stores, exc, iterations, describe_calls,
                    plan_calls, perform_calls, performed, outcome, calls_at_start,
                    click_step >>

Next ==
    \/ Begin
    \/ WhileTest
    \/ Capture
    \/ ReadUrl
    \/ Poll
    \/ Perceive
    \/ Decide
    \/ Act
    \/ Recapture
    \/ Result
    \/ Fatal

Spec == Init /\ [][Next]_vars


\* everything run_task reads or writes
run_state == << config, locals, stores, result, final_state, exc, history, summary, persisted,
               recorder_faulty >>
run == << run_state, pc, unfailed_pc >>

\* ------------------------------------------------- VisionAgent.describe_ui
\* largest retry_attempts explored
MaxRetries == 2

\* vision_agent.py lines 160-166: the keys describe_ui ensures
RequiredKeys == {"title", "buttons", "fields", "links", "text_content", "layout",
                 "interactive_elements"}

\* dict.setdefault
setdefault(d, key, default) ==
    IF key \in DOMAIN d THEN d ELSE d @@ (key :> default)

\* what the vision model wrote under a key
Seen == <<"S","i","g","n"," ","i","n">>

\* the `content` of the chat response: a JSON object with some of the keys,
\* a text without a JSON object, or null
Contents ==
    { [kind |-> "object", keys |-> keys] : keys \in SUBSET RequiredKeys }
    \cup { [kind |-> "text", keys |-> {}], [kind |-> "null", keys |-> {}] }

\* what a request of describe_ui meets: requests.exceptions.Timeout, another
\* RequestException (connection, HTTP status, body), or a response
RequestOutcomes ==
    { [kind |-> "timeout", content |-> [kind |-> "null", keys |-> {}]],
      [kind |-> "request_exception", content |-> [kind |-> "null", keys |-> {}]] }
    \cup { [kind |-> "response", content |-> content] : content \in Contents }

\* vision_agent.py lines 52-80: the parsed object, or the raw text under
\* `description` and `raw_response`
parse_json(content) ==
    IF content.kind = "object"
    THEN [key \in content.keys |-> Seen]
    ELSE [description |-> Seen, raw_response |-> Seen]

\* vision_agent.py lines 159-166
ensure_required(d) ==
    setdefault(setdefault(setdefault(setdefault(setdefault(setdefault(setdefault(d,
        "title", << >>), "buttons", << >>), "fields", << >>), "links", << >>),
        "text_content", << >>), "layout", << >>), "interactive_elements", << >>)

TimeoutErrorTitle == <<"T","i","m","e","o","u","t"," ","E","r","r","o","r">>
ErrorTitle == <<"E","r","r","o","r">>
unknown_layout == <<"u","n","k","n","o","w","n">>
TimeoutPrefix == <<"T","i","m","e","o","u","t",":"," ">>
ReadTimedOut == <<"R","e","a","d"," ","t","i","m","e","d"," ","o","u","t",".">>
UnexpectedErrorPrefix == <<"U","n","e","x","p","e","c","t","e","d"," ","e","r","r","o","r",":"," ">>
ErrorDescribingPrefix == <<"E","r","r","o","r"," ","d","e","s","c","r","i","b","i","n","g"," ","U","I",":"," ">>
NoneHasNoStrip == <<"'","N","o","n","e","T","y","p","e","'"," ","o","b","j","e","c","t"," ","h","a","s"," ","n","o"," ","a","t","t","r","i","b","u","t","e"," ","'","s","t","r","i","p","'">>

\* vision_agent.py lines 180-188, 193-202 and 206-215: the description
\* returned on a failure
degraded_description(title, text_content, err) ==
    [title |-> title, buttons |-> << >>, fields |-> << >>, links |-> << >>,
     text_content |-> text_content, layout |-> unknown_layout,
     interactive_elements |-> << >>, error |-> err]

\* a request repeated after any failure
retry_any_failure(kind, tried, allowed) == kind # "response" /\ tried < allowed

\* vision_agent.py lines 171-177: only a Timeout with attempts left is retried
retry(kind, tried, allowed) == kind = "timeout" /\ tried < allowed

\* vision_agent.py lines 141-167 and 203-215: what handling a response gives;
\* a null content makes text.strip() raise inside the try
handled(content) ==
    IF content.kind = "null"
    THEN [kind |-> "exception",
          description |-> degraded_description(ErrorTitle,
                              UnexpectedErrorPrefix \o NoneHasNoStrip, NoneHasNoStrip)]
    ELSE [kind |-> "response", description |-> ensure_required(parse_json(content))]

\* lines 92-98: the screenshot must exist and be readable
DescribeCall ==
    /\ describe_pc = "call"
    /\ \E readable \in BOOLEAN :
         describe_pc' = IF readable THEN "request" ELSE "raised"
    /\ attempt' = 0
    /\ UNCHANGED << run, planner, shell, retry_attempts, requests, ui_description >>

\* lines 132-215: one pass of the retry loop
DescribeRequest ==
    /\ describe_pc = "request"
    /\ \E met \in RequestOutcomes :
         IF met.kind = "response"
         THEN /\ requests' = Append(requests, handled(met.content).kind)
              /\ ui_description' = handled(met.content).description
              /\ describe_pc' = "returned"
              /\ attempt' = attempt
         ELSE /\ requests' = Append(requests, met.kind)
              /\ IF retry(met.kind, attempt, retry_attempts)
                 THEN /\ attempt' = attempt + 1
                      /\ describe_pc' = "request"
                      /\ ui_description' = ui_description
                 ELSE /\ attempt' = attempt
                      /\ describe_pc' = "returned"
                      /\ ui_description' =
                           IF met.kind = "timeout"
                           THEN degraded_description(TimeoutErrorTitle, ReadTimedOut,
                                                     TimeoutPrefix \o ReadTimedOut)
                           ELSE degraded_description(ErrorTitle,
                                    ErrorDescribingPrefix \o boom, boom)
    /\ UNCHANGED << run, planner, shell, retry_attempts >>

\* describe_ui is called with any retry_attempts that is not negative
InitDescribe ==
    /\ Constructed({1}, {None}, {NoCredentials}, FALSE, "idle")
    /\ PlannerIdle
    /\ InRunTask
    /\ describe_pc = "call"
    /\ retry_attempts \in 0..MaxRetries
    /\ attempt = 0
    /\ requests = << >>
    /\ ui_description = NoDescription

NextDescribe ==
    \/ DescribeCall
    \/ DescribeRequest

SpecDescribe == InitDescribe /\ [][NextDescribe]_vars

\* ------------------------------------------------ ReasoningAgent.plan_next
Space == <<" ">>
LBrace == << "{" >>
RBrace == << "}" >>

\* str.strip, for blanks
RECURSIVE lstrip(_)
lstrip(s) == IF s # << >> /\ Head(s) = " " THEN lstrip(Tail(s)) ELSE s
RECURSIVE rstrip(_)
rstrip(s) ==
    IF s # << >> /\ s[Len(s)] = " " THEN rstrip(SubSeq(s, 1, Len(s) - 1)) ELSE s
strip(s) == rstrip(lstrip(s))

\* str.find and str.rfind of one character: index from 0, -1 when absent
Positions(s, ch) == { i \in 1..Len(s) : s[i] = ch }
find(s, ch) ==
    IF Positions(s, ch) = {} THEN -1
    ELSE (CHOOSE i \in Positions(s, ch) : \A j \in Positions(s, ch) : i <= j) - 1
rfind(s, ch) ==
    IF Positions(s, ch) = {} THEN -1
    ELSE (CHOOSE i \in Positions(s, ch) : \A j \in Positions(s, ch) : i >= j) - 1

\* s[start:stop] for indices that are not negative
slice(s, start, stop) == SubSeq(s, start + 1, stop)

\* JSON texts the reasoning model can write
click_object == LBrace \o <<"\"","a","c","t","i","o","n","\"",":"," ","\"","c","l","i","c","k","\"",","," ","\"","t","a","r","g","e","t","\"",":"," ","\"","N","e","x","t","\"",","," ","\"","d","o","n","e","\"",":"," ","f","a","l","s","e">> \o RBrace
done_object == LBrace \o <<"\"","d","o","n","e","\"",":"," ","t","r","u","e">> \o RBrace
bare_object == LBrace \o <<"c","l","i","c","k">> \o RBrace
unclosed_object == LBrace \o <<"\"","a","c","t","i","o","n","\"",":"," ","\"","f","i","l","l","\"",","," ","\"","t","a","r","g","e","t","\"",":"," ","\"","E","m","a","i","l"," ","a","d","d","r","e","s","s","\"">>

\* json.loads on the texts above: the object of a JSON text, and
\* JSONDecodeError (valid = FALSE) for every other text
json_loads(json_str) ==
    IF json_str = click_object
    THEN [valid |-> TRUE, object |-> Decision(click, Next_button, Absent, FALSE, Absent)]
    ELSE IF json_str = done_object
    THEN [valid |-> TRUE, object |-> Decision(Absent, Absent, Absent, TRUE, Absent)]
    ELSE [valid |-> FALSE, object |-> NoDecision]

\* reasoning_agent.py lines 43-54: the JSON object between the first "{" and
\* the last "}" of the stripped text, when it parses and has an "action"
extracted(text) ==
    LET stripped == strip(text)
        start_idx == find(stripped, "{")
        end_idx == rfind(stripped, "}")
        loaded == json_loads(slice(stripped, start_idx, end_idx + 1))
    IN  IF start_idx # -1 /\ end_idx # -1 /\ loaded.valid /\ loaded.object.action # Absent
        THEN [found |-> TRUE, object |-> loaded.object]
        ELSE [found |-> FALSE, object |-> NoDecision]

click_word == <<"c","l","i","c","k">>
fill_words == << <<"f","i","l","l">>, <<"e","n","t","e","r">>, <<"t","y","p","e">> >>
navigate_words == << <<"n","a","v","i","g","a","t","e">>, <<"g","o"," ","t","o">> >>
done_words == << <<"d","o","n","e">>, <<"c","o","m","p","l","e","t","e">>, <<"f","i","n","i","s","h","e","d">> >>

\* reasoning_agent.py lines 56-77: the decision guessed from the words of a
\* text that holds no usable JSON object
fallback(text) ==
    LET stripped == strip(text)
        text_lower == lower(stripped)
        action == with_reasoning(Decision(unknown, None, None, FALSE, Absent), stripped)
    IN  IF Contains(click_word, text_lower) THEN [action EXCEPT !.action = click]
        ELSE IF ContainsAny(fill_words, text_lower) THEN [action EXCEPT !.action = fill]
        ELSE IF ContainsAny(navigate_words, text_lower)
        THEN [action EXCEPT !.action = navigate]
        ELSE IF ContainsAny(done_words, text_lower) THEN [action EXCEPT !.done = TRUE]
        ELSE action

\* reasoning_agent.py lines 30-77
parse_action(text) ==
    IF extracted(text).found THEN extracted(text).object ELSE fallback(text)

ErrorPrefix == <<"E","r","r","o","r",":"," ">>

\* reasoning_agent.py lines 171-192: the decision returned on an exception
error_action(prefix, text) ==
    with_reasoning(Decision(error_kind, None, None, FALSE, text), prefix \o text)

\* what the reasoning model can answer
Words == { << >>, <<"c","l","i","c","k">>, <<"T","y","p","e">>, <<"g","o"," ","t","o">>, <<"d","o","n","e">>, <<"h","e","l","l","o">> }
Bodies == { << >>, click_object, done_object, bare_object, unclosed_object }
Texts ==
    { before \o Space \o body \o Space \o after :
        before \in Words, body \in Bodies, after \in Words }

\* what the request of plan_next meets: a RequestException, or a JSON body
\* whose "response" is a text or null
Responses ==
    { [transport |-> "request_exception", text |-> << >>],
      [transport |-> "ok", text |-> None] }
    \cup { [transport |-> "ok", text |-> text] : text \in Texts }

\* lines 149-154 and 171-181: the request
PlanRequest ==
    /\ plan_pc = "call"
    /\ IF response.transport = "ok"
       THEN /\ plan_pc' = "parse"
            /\ planned' = planned
       ELSE /\ plan_pc' = "returned"
            /\ planned' = error_action(ErrorPrefix, boom)
    /\ UNCHANGED << run, describer, shell, response >>

\* lines 156-169 and 182-192: the decision parsed from the response text;
\* a null text makes text.strip() raise inside the try
PlanParse ==
    /\ plan_pc = "parse"
    /\ planned' = IF response.text = None
                  THEN error_action(UnexpectedErrorPrefix, NoneHasNoStrip)
                  ELSE parse_action(response.text)
    /\ plan_pc' = "returned"
    /\ UNCHANGED << run, describer, shell, response >>

InitPlan ==
    /\ Constructed({1}, {None}, {NoCredentials}, FALSE, "idle")
    /\ DescriberIdle
    /\ InRunTask
    /\ plan_pc = "call"
    /\ response \in Responses
    /\ planned = NoDecision

NextPlan ==
    \/ PlanRequest
    \/ PlanParse

SpecPlan == InitPlan /\ [][NextPlan]_vars

\* ------------------------------------------- run_task with a failing recorder
\* largest step budget explored with a failing Step Recorder
LogBudget == 2

\* run_task on a run directory whose files cannot always be written
InitLog ==
    /\ Constructed(1..LogBudget, {linear_app}, {NoCredentials}, TRUE, "start")
    /\ DescriberIdle
    /\ PlannerIdle
    /\ InRunTask

SpecLog == InitLog /\ [][Next]_vars

\* -------------------------------------------------------------------- main
\* largest step budget explored under main
MainBudget == 1

\* stop called only after run_task has returned
after_try_returned_only(exit) == IF exit = "returned" THEN "finally" ELSE "exit"

\* main.py lines 125-151: however the try block is left (start raised,
\* run_task returned or raised, KeyboardInterrupt), the finally clause runs
after_try(exit) == "finally"

\* line 127: start the browser
MainStart ==
    /\ main_pc = "start"
    /\ \E started \in BOOLEAN :
         IF started
         THEN /\ main_pc' = "run_task"
              /\ Goto(FALSE, "start")
         ELSE /\ main_pc' = after_try("start_failed")
              /\ UNCHANGED << pc, unfailed_pc >>
    /\ UNCHANGED << run_state, describer, planner, stop_calls >>

\* lines 130-147: run_task has returned its Run Result, or raised
MainReturn ==
    /\ main_pc = "run_task"
    /\ pc \in {"returned", "raised"}
    /\ main_pc' = after_try(pc)
    /\ UNCHANGED << run, describer, planner, stop_calls >>

\* lines 145-146: KeyboardInterrupt while the browser starts or run_task runs
MainInterrupt ==
    /\ main_pc \in {"start", "run_task"}
    /\ pc \notin {"returned", "raised"}
    /\ main_pc' = after_try("interrupted")
    /\ Goto(FALSE, "interrupted")
    /\ UNCHANGED << run_state, describer, planner, stop_calls >>

\* lines 149-151 with web_agent.py lines 160-181
MainStop ==
    /\ main_pc = "finally"
    /\ stop_calls' = stop_calls + 1
    /\ main_pc' = "exit"
    /\ UNCHANGED << run, describer, planner >>

InitMain ==
    /\ Constructed(1..MainBudget, {linear_app}, {NoCredentials}, FALSE, "idle")
    /\ DescriberIdle
    /\ PlannerIdle
    /\ main_pc = "start"
    /\ stop_calls = 0

NextMain ==
    \/ Next
    \/ MainStart
    \/ MainReturn
    \/ MainInterrupt
    \/ MainStop

\* asyncio.run drives main to its end: a step that can be taken is taken
SpecMain == InitMain /\ [][NextMain]_vars /\ WF_vars(NextMain)

\* ----------------------------------------------------------- StateManager
\* most entries of the metadata store explored
MaxStore == 2
\* largest step index saved
MaxStepIndex == 2

\* state_manager.py lines 39-81: one call of save_step
SaveStep ==
    /\ Len(steps) < MaxStore
    /\ \E s \in 0..MaxStepIndex, decision \in Decisions :
         /\ steps' = save_step(steps, s, step_data(s, decision))
         /\ persisted' = persisted_entry(s, decision)
    /\ UNCHANGED << config, pc, locals, log, screenshots, captured_after, result, final_state, exc, history,
                    unfailed_pc, summary, recorder_faulty, describer, planner, shell >>

\* a StateManager on a fresh task directory (load_state, lines 26-37)
InitStore ==
    /\ Constructed({1}, {None}, {NoCredentials}, FALSE, "idle")
    /\ DescriberIdle
    /\ PlannerIdle
    /\ InRunTask

NextStore == SaveStep

SpecStore == InitStore /\ [][NextStore]_vars

\* ---------------------------------------------------- the credential policy
\* credentials as main passes them (main.py lines 106-112): each one present
\* or not
AllCredentialSets ==
    { [email |-> email, password |-> password] :
        email \in {Absent, a_b_com}, password \in {Absent, secret} }

Email_or_password == <<"E","m","a","i","l"," ","o","r"," ","p","a","s","s","w","o","r","d">>
Full_name == <<"F","u","l","l"," ","n","a","m","e">>
Username_label == <<"U","s","e","r","n","a","m","e">>
Fill_capitalised == <<"F","i","l","l">>

\* decisions that reach the credential policy
PolicyDecisions ==
    { Decision(action, target, value, FALSE, Absent) :
        action \in {fill, Fill_capitalised, click},
        target \in {Email_address, Password_label, Email_or_password, Full_name,
                    Username_label},
        value \in {x_y_org, None} }

\* lines 141-151: a decision that is neither done nor an error arrives at
\* line 195
PolicyDecide ==
    /\ pc = "decide"
    /\ \E decision \in PolicyDecisions :
         /\ reasoning_data' = decision
         /\ steps' = save_step(steps, step, step_data(step, decision))
         /\ persisted' = persisted_entry(step, decision)
         /\ log' = record_step(log, step, decision.action, "pending")
    /\ Goto(FALSE, "act")
    /\ UNCHANGED << config, side, summary, step, done, error, oauth_detected,
                    screenshot_already_captured, img_path, current_domain,
                    wait_attempt, vision_data, screenshots, captured_after, result, final_state, exc,
                    history >>

InitPolicy ==
    /\ Constructed({1}, {None}, AllCredentialSets, FALSE, "decide")
    /\ DescriberIdle
    /\ PlannerIdle
    /\ InRunTask

NextPolicy ==
    \/ PolicyDecide
    \/ Act

SpecPolicy == InitPolicy /\ [][NextPolicy]_vars

\* ------------------------------------- run_task on a task that ran before
\* largest step budget explored on a loaded store
ResumeBudget == 2
\* most entries an earlier run left in metadata.json
MaxLoaded == 3

Settings_link == <<"S","e","t","t","i","n","g","s">>

\* what an earlier run under the same task name saved at step s
earlier_step(s) == step_data(s, Decision(click, Settings_link, None, FALSE, Absent))

\* state_manager.py lines 26-37: the stores load_state can find
LoadedStores ==
    { [i \in 1..n |-> earlier_step(i - 1)] : n \in 0..MaxLoaded }

\* reasoning_agent.py line 102: previous_steps[-3:]
last_three(previous_steps) ==
    SubSeq(previous_steps,
           IF Len(previous_steps) > 3 THEN Len(previous_steps) - 2 ELSE 1,
           Len(previous_steps))

InitResume ==
    /\ Resumed(1..ResumeBudget, {linear_app}, {NoCredentials}, FALSE, "start", LoadedStores)
    /\ DescriberIdle
    /\ PlannerIdle
    /\ InRunTask

SpecResume == InitResume /\ [][Next]_vars

\* ------------------------------------------------------ dispatch of one action
\* one iteration of run_task from the Planner's decision to the Run Result,
\* for every action kind the Planner can name and its capitalised spellings

\* the step budget of the runs that dispatch
DispatchBudget == 1

Click_capitalised == <<"C","l","i","c","k">>
Navigate_capitalised == <<"N","a","v","i","g","a","t","e">>
Wait_capitalised == <<"W","A","I","T">>
scroll == <<"s","c","r","o","l","l">>
two_seconds == <<"2">>

KnownKinds == {click, fill, navigate, wait}

\* decisions that reach the action block: not done, no error
DispatchDecisions ==
    { Decision(action, target, value, FALSE, Absent) :
        action \in KnownKinds \cup {Click_capitalised, Fill_capitalised,
                                    Navigate_capitalised, Wait_capitalised, scroll,
                                    unknown},
        target \in {Next_button, linear_app, None},
        value \in {None, two_seconds} }

\* lines 141-193 for a decision that is neither done nor an error
DispatchDecide ==
    /\ pc = "decide"
    /\ \E decision \in DispatchDecisions :
         /\ reasoning_data' = decision
         /\ steps' = save_step(steps, step, step_data(step, decision))
         /\ persisted' = persisted_entry(step, decision)
         /\ log' = record_step(log, step, decision.action, "pending")
    /\ Goto(FALSE, "act")
    /\ UNCHANGED << config, side, summary, step, done, error, oauth_detected,
                    screenshot_already_captured, img_path, current_domain,
                    wait_attempt, vision_data, screenshots, captured_after, result, final_state, exc,
                    history >>

InitDispatch ==
    /\ Constructed({DispatchBudget}, {None}, AllCredentialSets, FALSE, "decide")
    /\ DescriberIdle
    /\ PlannerIdle
    /\ InRunTask

NextDispatch ==
    \/ DispatchDecide
    \/ Act
    \/ Recapture
    \/ WhileTest
    \/ Result

SpecDispatch == InitDispatch /\ [][NextDispatch]_vars

\* ------------------------------------------------------------------ claims
calls == << describe_calls, plan_calls, perform_calls >>
last_logged == log[Len(log)]

\* C1: the loop runs at most max_steps iterations and at most max_steps
\* Planner calls, every finished iteration has raised the step index by at
\* least one, and the guard never polls more than 10 times in an iteration.
C1_BoundedLoop ==
    /\ iterations <= max_steps
    /\ plan_calls <= iterations
    /\ iterations <= step + 1
    /\ (pc = "while" => iterations <= step)
    /\ wait_attempt <= 10

C1_BudgetUsedUp ==
    /\ pc = "returned"
    /\ halt = "budget"
    /\ iterations = max_steps
    /\ max_steps = MaxBudget

\* C2: when the run has returned, the entry at position i of the metadata
\* store carries step index i, counting from 0: no gap and no duplicate.
C2_DenseStepIndices ==
    pc = "returned" => \A i \in 1..Len(steps) : steps[i].step = i - 1

\* C3 as stated: a poll that reads a denylisted host keeps the guard polling
\* until the 10th poll, which halts the run with the stuck-host error.
C3_EveryOAuthHostIsStuck ==
    [][ (pc = "poll" /\ is_oauth_page(current_domain'))
        => \/ pc' = "poll" /\ wait_attempt' < 10
           \/ pc' = "result" /\ halt' = "oauth" /\ wait_attempt' = 10 ]_vars

\* C3 amended: a poll that reads a denylisted host which does not contain the
\* original host keeps the guard polling until the 10th poll; the run then
\* halts with completed=false and an error that contains the stuck host, and
\* the Describer, the Planner and perform were not called in that iteration.
C3_StuckOAuthHalts ==
    /\ [][ (pc = "poll" /\ is_oauth_page(current_domain')
                        /\ ~ Contains(original_domain, current_domain'))
           => \/ pc' = "poll" /\ wait_attempt' < 10
              \/ pc' = "result" /\ halt' = "oauth" /\ wait_attempt' = 10 ]_vars
    /\ [](halt = "oauth"
          => /\ wait_attempt = 10
             /\ pc \in {"result", "returned"}
             /\ ~ done
             /\ Contains(current_domain, error)
             /\ calls = calls_at_start
             /\ (pc = "returned" => result.completed = FALSE /\ result.error = error))

C3_StuckOnGithub ==
    /\ pc = "returned"
    /\ halt = "oauth"
    /\ original_domain = linear_app
    /\ current_domain = github_com

\* C4: a dispatched fill whose target is "Email address", in a run with an
\* email credential, carries the credential as its value.
C4_EmailCredentialFilled ==
    ( /\ perform_calls > 0
      /\ performed.action.action = fill
      /\ performed.action.target = Email_address
      /\ Truthy(credentials.email) )
    => performed.action.value = credentials.email

C4_ProposedValueReplaced ==
    /\ perform_calls > 0
    /\ performed.action.action = fill
    /\ performed.action.target = Email_address
    /\ performed.proposed = x_y_org
    /\ credentials.email = a_b_com

\* C5: once the Planner has returned done=true at step k the loop is left:
\* perform is not called in that iteration, the pending record of step k is
\* the last record of the log and of the store, and the Run Result is
\* completed=true, error unset, steps=k+1.
C5_DoneShortCircuit ==
    done =>
      /\ pc \in {"result", "returned"}
      /\ error = None
      /\ perform_calls = calls_at_start[3]
      /\ last_logged.status = "pending"
      /\ steps[Len(steps)].step = last_logged.step
      /\ (pc = "returned"
          => result = [completed |-> TRUE, steps |-> last_logged.step + 1, error |-> None])

C5_DoneAtStepZero ==
    /\ pc = "returned"
    /\ reasoning_data.done
    /\ Len(log) = 1
    /\ result.steps = 1

\* C6: the decide phase that follows a non-navigating click at step k runs at
\* step k+1 on the screenshot of index k+1, which was captured exactly once.
C6_RecaptureAdvancesByOne ==
    (pc = "decide" /\ click_step # -1)
    => /\ step = click_step + 1
       /\ img_path = click_step + 1
       /\ Cardinality({i \in DOMAIN screenshots : screenshots[i] = click_step + 1}) = 1

\* C7: a run that ends by budget exhaustion reports completed=false, no error
\* and steps = max_steps.
C7_ExhaustionCountsBudget ==
    (pc = "returned" /\ halt = "budget")
    => /\ result.completed = FALSE
       /\ result.error = None
       /\ result.steps = max_steps

C9_NotFoundClickRaises ==
    (perform_calls > 0 /\ performed.action.action = click /\ ~ outcome.located)
    => outcome.raised

\* C10: when perform raises at step k the loop is left at once with error set
\* to the exception text, the Run Result is completed=false, that error and
\* steps=k+1, and no Describer, Planner or perform call follows.
C10_DispatchFailureHalts ==
    /\ [](outcome.raised => halt = "dispatch")
    /\ [](halt = "dispatch"
          => /\ pc \in {"result", "returned"}
             /\ outcome.raised
             /\ error = outcome.text
             /\ (pc = "returned"
                 => result = [completed |-> FALSE, steps |-> performed.step + 1,
                              error |-> outcome.text]))
    /\ [][halt = "dispatch" => calls' = calls]_vars

C10_FailedAtSecondStep ==
    /\ pc = "returned"
    /\ halt = "dispatch"
    /\ performed.step = 1

\* C11: when the Planner returns action="error" with done=false, the run
\* returns completed=false without dispatching, and the error of the Run
\* Result is the decision's `error` text, or its `reasoning` text when the
\* decision has no `error` field.
C11_PlannerMessageIsRunError ==
    (pc = "returned" /\ halt = "planner_error"
        /\ (reasoning_data.error # Absent \/ reasoning_data.reasoning # Absent))
    => /\ result.completed = FALSE
       /\ perform_calls = calls_at_start[3]
       /\ result.error = IF reasoning_data.error # Absent
                         THEN reasoning_data.error
                         ELSE reasoning_data.reasoning

\* C12: a decision with done=true, whatever its action, ends the run with
\* completed=true and no error, and perform is not called for it.
C12_DoneTakesPrecedence ==
    reasoning_data.done
    => /\ pc \in {"result", "returned"}
       /\ halt = "done"
       /\ done
       /\ error = None
       /\ perform_calls = calls_at_start[3]
       /\ (pc = "returned" => result.completed /\ result.error = None)

C12_DoneWithErrorAction ==
    /\ pc = "returned"
    /\ reasoning_data.done
    /\ reasoning_data.action = error_kind
    /\ result.completed

\* C13: a degraded description is handed to the Planner: the step that
\* receives it leads to the Planner call, and the next step of the run is that
\* call, in the same iteration.
C13_DegradedStillPlans ==
    /\ [][ (vision_data' = "degraded" /\ vision_data # "degraded")
           => pc' = "decide" ]_vars
    /\ [][ vision_data = "degraded"
           => /\ plan_calls' = plan_calls + 1
              /\ iterations' = iterations
              /\ reasoning_data' \in Decisions ]_vars

C13_DegradedDescription ==
    /\ pc = "decide"
    /\ vision_data = "degraded"
    /\ describe_calls = calls_at_start[1] + 1
    /\ plan_calls = calls_at_start[2]

\* the description carries an error marker and names no button and no field
error_marked(d) ==
    /\ "error" \in DOMAIN d
    /\ d.buttons = << >>
    /\ d.fields = << >>

\* C14: describe_ui posts at most retry_attempts+1 requests, each but the
\* first after a timeout of the one before; a request that fails otherwise
\* ends the call at once, and so does the last timeout, both with an
\* error-marked description; every description returned has the seven keys.
C14_BoundedRetryOnTimeout ==
    /\ Len(requests) <= retry_attempts + 1
    /\ \A i \in 1..(Len(requests) - 1) : requests[i] = "timeout"
    /\ (describe_pc = "request" => \A i \in 1..Len(requests) : requests[i] = "timeout")
    /\ (describe_pc = "request" => Len(requests) <= retry_attempts)
    /\ (describe_pc = "returned"
        => /\ Len(requests) >= 1
           /\ RequiredKeys \subseteq DOMAIN ui_description
           /\ (requests[Len(requests)] # "response" => error_marked(ui_description))
           /\ (requests[Len(requests)] = "timeout" => Len(requests) = retry_attempts + 1))

C14_LastTimeout ==
    /\ describe_pc = "returned"
    /\ retry_attempts = MaxRetries
    /\ Len(requests) = MaxRetries + 1
    /\ requests[Len(requests)] = "timeout"
    /\ error_marked(ui_description)

\* the response is a text that holds a JSON object with an "action"
well_formed(answer) ==
    /\ answer.transport = "ok"
    /\ answer.text # None
    /\ extracted(answer.text).found

\* C15: when the request of plan_next fails or the response holds no JSON
\* object with an "action", the decision returned has action="error" and
\* done=false, which the loop takes as the Planner's error.
C15_FailureGivesErrorAction ==
    (plan_pc = "returned" /\ ~ well_formed(response))
    => /\ planned.action = error_kind
       /\ planned.done = FALSE
       /\ verdict(planned) = "planner_error"

\* C16: whichever calls of record_step, write_summary and the report raise,
\* run_task is where it would be had none raised, no such exception reaches
\* the handler of line 397, and the Run Result is built from the same done,
\* step and error.
C16_LoggingFailuresSwallowed ==
    /\ pc = unfailed_pc
    /\ exc \in {None, DriverError, PermissionDenied}
    /\ (pc = "returned" /\ halt # "fatal"
        => result = [completed |-> done, steps |-> steps_executed(step), error |-> error])

C16_EveryLoggingCallFailed ==
    /\ recorder_faulty
    /\ pc = "returned"
    /\ perform_calls >= 1
    /\ log = << >>
    /\ summary = "failed"
    /\ result.completed

\* C17: a run ended by an exception that escaped the loop body returns
\* completed=false with the exception text as error, after write_summary was
\* called.
C17_FatalStillWritesSummary ==
    (pc = "returned" /\ halt = "fatal")
    => /\ result.completed = FALSE
       /\ result.error = exc
       /\ summary # "none"

\* C18: run_task never ends by propagating an exception, and when it has
\* returned it has produced a Run Result.
C18_NeverPropagates ==
    /\ pc # "raised"
    /\ (pc = "returned" => result.steps >= 1)

\* C19: every execution of main eventually calls WebAgent.stop, and main
\* does not end without having called it once.
C19_StopEventuallyCalled ==
    /\ <>(stop_calls = 1)
    /\ [](main_pc = "exit" => stop_calls = 1)

C19_StoppedAfterRaise ==
    /\ main_pc = "exit"
    /\ pc = "raised"
    /\ stop_calls = 1

\* C20: for every store and every step, saving the step at a position the
\* store already has replaces that entry and keeps the length and the other
\* entries, and saving the same step a second time changes nothing.
C20_SaveStepIdempotent ==
    \A s \in 0..MaxStepIndex, decision \in Decisions :
        LET once == save_step(steps, s, step_data(s, decision))
            twice == save_step(once, s, step_data(s, decision))
        IN  /\ (s < Len(steps)
                => /\ Len(once) = Len(steps)
                   /\ once[s + 1] = step_data(s, decision)
                   /\ \A i \in 1..Len(steps) : i # s + 1 => once[i] = steps[i])
            /\ twice = once

\* C21: every step of a run keeps the compact log it found as a prefix of
\* the log it leaves; the step that records the decision adds exactly one
\* entry, a call of record_step on any log reached adds one entry at the end,
\* and the step that writes the summary leaves the log as it is.
C21_LogAppendOnly ==
    /\ [][ Len(log') >= Len(log) /\ SubSeq(log', 1, Len(log)) = log ]_vars
    /\ [][ pc = "decide" => Len(log') = Len(log) + 1 ]_vars
    /\ [][ pc = "result" => log' = log ]_vars
    /\ [](LET after == record_step(log, step, click, "success")
          IN  Len(after) = Len(log) + 1 /\ SubSeq(after, 1, Len(log)) = log)

C21_SummaryAfterThreeRecords ==
    /\ pc = "returned"
    /\ summary = "written"
    /\ Len(log) >= 3

\* C22: a poll of the guard that sees the redirect resolve leaves the
\* iteration in its skipping state, and the skipping state ends the iteration
\* with the step index raised by one and without a call of the Describer or
\* the Planner.
C22_ResolvedWaitSkipsModels ==
    /\ [][ (pc = "poll" /\ redirect_resolved(original_domain, current_domain'))
           => (pc' = "perceive" /\ oauth_detected') ]_vars
    /\ [][ (pc = "perceive" /\ oauth_detected /\ pc' # "fatal")
           => /\ pc' = "while"
              /\ step' = step + 1
              /\ describe_calls' = describe_calls
              /\ plan_calls' = plan_calls ]_vars

\* C23: the guard is entered only on a denylisted host with an original host
\* recorded; a run without an initial URL never polls and never gets the
\* guard's error.
C23_GuardNeedsOriginalHost ==
    /\ [][ pc' = "poll" => (is_oauth_page(current_domain') /\ Truthy(original_domain)) ]_vars
    /\ [](original_domain = None
          => /\ pc # "poll"
             /\ halt # "oauth"
             /\ wait_attempt = 0
             /\ ~ oauth_detected)

C23_OAuthHostWithoutInitialUrl ==
    /\ original_domain = None
    /\ current_domain = github_com
    /\ pc = "decide"

C25_PersistedValueIsFilledValue ==
    [][ (perform_calls' = perform_calls + 1
            /\ lower(reasoning_data.action) = fill
            /\ has_credentials(credentials))
        => /\ persisted.step = step
           /\ persisted.value = performed'.action.value ]_vars

\* the value C26 states: the email for an email target when there is an
\* email credential, otherwise the password for a password target when there
\* is a password credential, otherwise the Planner's value
stated_value(action_type, action_target, value, creds) ==
    IF action_type = fill /\ has_credentials(creds)
    THEN IF ContainsAny(email_keywords, action_target) /\ Truthy(creds.email)
         THEN creds.email
         ELSE IF Contains(password_keyword, action_target) /\ Truthy(creds.password)
         THEN creds.password
         ELSE value
    ELSE value

\* C26: the value passed to perform is the one the policy of the claim gives
\* for the decision's action, lower-cased target, proposed value and the
\* configured credentials.
C26_PolicyAsStated ==
    performed.step >= 0
    => performed.action.value =
         stated_value(lower(performed.action.action), lower(performed.action.target),
                      performed.proposed, credentials)

\* C27: when the Planner is asked at step k, the steps it is shown are the
\* entries of steps k-3 .. k-1 (from 0), in order, and no others.
C27_HistoryIsLastThreeOfRun ==
    pc = "decide"
    => LET shown == last_three(steps)
       IN  /\ Len(shown) = (IF step < 3 THEN step ELSE 3)
           /\ \A i \in 1..Len(shown) : shown[i].step = step - Len(shown) + i - 1
           /\ \A i \in 1..Len(shown) : shown[i] # earlier_step(shown[i].step)

C29_DescribedScreenshotIsCurrent ==
    [][ (pc = "perceive" /\ describe_calls' = describe_calls + 1)
        => \E i \in 1..Len(screenshots) :
             /\ screenshots[i] = img_path
             /\ \A j \in (i + 1)..Len(screenshots) : screenshots[j] # img_path
             /\ captured_after[i] = perform_calls ]_vars

C29_DescribedAfterClick ==
    /\ pc = "decide"
    /\ performed.action.action = click
    /\ ~ outcome.raised
    /\ ~ outcome.nav
    /\ performed.step = step - 1
    /\ perform_calls = 1
    /\ describe_calls = 3
    /\ img_path = 1
    /\ screenshots = << 0, 1 >>
    /\ captured_after = << 0, 1 >>

C31_WaitIsAPause ==
    [][ (pc = "act" /\ reasoning_data.action = wait /\ ~ reasoning_data.done
            /\ ~ Truthy(reasoning_data.value))
        => /\ perform_calls' = perform_calls + 1
           /\ ~ outcome'.raised
           /\ ~ outcome'.nav
           /\ log' = Append(log, [step |-> step, action |-> wait, status |-> "success"])
           /\ step' = step + 1
           /\ error' = None
           /\ pc' = "while" ]_vars

\* C32: a dispatch that raises at step k adds exactly one record to the
\* compact log, with status "failure" and step k.
C32_OneFailureRecord ==
    [][ (perform_calls' = perform_calls + 1 /\ outcome'.raised)
        => log' = Append(log, [step |-> step, action |-> reasoning_data.action,
                               status |-> "failure"]) ]_vars

\* C33: a Run Result with completed=true has no error, and a Run Result with
\* an error has completed=false.
C33_CompletedExcludesError ==
    pc = "returned"
    => /\ (result.completed => result.error = None)
       /\ (result.error # None => ~ result.completed)

C33_DoneWithErrorActionReturned ==
    /\ pc = "returned"
    /\ result.completed
    /\ result.error = None
    /\ reasoning_data.action = error_kind
    /\ reasoning_data.error = boom
    /\ plan_calls = 2

\* C34: every screenshot captured and every entry of the metadata store and
\* of the compact log has a step index below max_steps.
C34_IndicesBelowBudget ==
    /\ \A i \in 1..Len(screenshots) : screenshots[i] < max_steps
    /\ \A i \in 1..Len(steps) : steps[i].step < max_steps
    /\ \A i \in 1..Len(log) : log[i].step < max_steps

\* C35: on every exit path of the loop, the steps count of the Run Result is
\* the number of Step Records the run saved to the metadata store.
C35_StepsCountsSavedRecords ==
    (pc = "returned" /\ halt # "fatal") => result.steps = Len(steps)

\* C36: when the run has returned, the last entry of the compact log for the
\* step of the last action, if that action was dispatched without an
\* exception, has status "success".
C36_DispatchedStepEndsSuccess ==
    (pc = "returned" /\ perform_calls >= 1 /\ ~ outcome.raised)
    => \E i \in 1..Len(log) :
         /\ log[i].step = performed.step
         /\ log[i].status = "success"
         /\ \A j \in (i + 1)..Len(log) : log[j].step # performed.step

\* C37: after any sequence of save_step calls, get_step(i) returns, for every
\* position i of the metadata store, a record whose step field is i.
C37_PositionIsStepIndex ==
    \A i \in 0..(Len(steps) - 1) : get_step(steps, i).step = i

\* C38: the final step record of a Run Result that the loop's exit produced is
\* the record of the last step this run saved, and is absent when this run
\* saved none, whatever an earlier run left in the metadata store.
C38_FinalStateIsOfThisRun ==
    (pc = "returned" /\ halt # "fatal")
    => IF persisted = NotPersisted
       THEN final_state = NoStep
       ELSE final_state = step_data(persisted.step, reasoning_data)

====
